---- MODULE Spec2Model ----
(***************************************************************************)
(* Model of the MongoDB ODBC connectivity tester                           *)
(* (src/connectivity_tester/src/main.rs).                                  *)
(*                                                                         *)
(* One run of the binary is one behaviour: main parses the command line,   *)
(* dispatches to test_connection or show_examples, and test_connection     *)
(* drives four calls into the connectivity library (ODBCUri::new, the      *)
(* tokio runtime builder, try_into_client_options, MongoConnection::       *)
(* connect) followed by shutdown.  The library is external: every call's   *)
(* outcome is a nondeterministic choice among the results it can return.   *)
(*                                                                         *)
(* Text is a sequence of one-character strings, so that format!,           *)
(* to_lowercase and contains are computed and not assumed.  Every println! *)
(* is an output item [tag, arg]: tag names the static text of the line (a  *)
(* guidance block of consecutive println! calls is one item), arg carries  *)
(* the interpolated value.                                                 *)
(***************************************************************************)
EXTENDS Integers, Sequences, FiniteSets

VARIABLES
    pc,          \* position of the process in main / test_connection
    argv,        \* the command line as given by the user
    password,    \* the password value embedded in the supplied string
    req,         \* the parameters of test_connection
    user_options,\* the resolved client options (Step 3 result)
    calls,       \* the calls made into the external library, in order
    tips,        \* the messages print_troubleshooting_tips was called with
    output,      \* what was printed on stdout, in order
    exitCode     \* the exit code of the process, once it has terminated

vars == <<pc, argv, password, req, user_options, calls, tips, output, exitCode>>

\* Option<T>
None == [some |-> FALSE]
Some(x) == [some |-> TRUE, val |-> x]

\* ---------------------------------------------------------------- bounds
\* A failure message is a sentence of at most MaxWords fragments.
MaxWords == 2

\* ---------------------------------------------------------------- text
\* char::to_lowercase on the characters the messages are written with
LowerChar(c) ==
    CASE c = "A" -> "a" [] c = "B" -> "b" [] c = "C" -> "c" [] c = "D" -> "d"
      [] c = "E" -> "e" [] c = "F" -> "f" [] c = "G" -> "g" [] c = "H" -> "h"
      [] c = "I" -> "i" [] c = "J" -> "j" [] c = "K" -> "k" [] c = "L" -> "l"
      [] c = "M" -> "m" [] c = "N" -> "n" [] c = "O" -> "o" [] c = "P" -> "p"
      [] c = "Q" -> "q" [] c = "R" -> "r" [] c = "S" -> "s" [] c = "T" -> "t"
      [] c = "U" -> "u" [] c = "V" -> "v" [] c = "W" -> "w" [] c = "X" -> "x"
      [] c = "Y" -> "y" [] c = "Z" -> "z" [] OTHER -> c

\* str::to_lowercase
to_lowercase(s) == [i \in 1..Len(s) |-> LowerChar(s[i])]

\* str::contains with a string pattern
contains(s, pat) ==
    \E i \in 0..(Len(s) - Len(pat)) : SubSeq(s, i + 1, i + Len(pat)) = pat

\* <u32 as Display>::fmt
Digit(d) ==
    CASE d = 0 -> "0" [] d = 1 -> "1" [] d = 2 -> "2" [] d = 3 -> "3"
      [] d = 4 -> "4" [] d = 5 -> "5" [] d = 6 -> "6" [] d = 7 -> "7"
      [] d = 8 -> "8" [] d = 9 -> "9"

RECURSIVE fmt_u32(_)
fmt_u32(n) == IF n < 10 THEN <<Digit(n)>>
               ELSE Append(fmt_u32(n \div 10), Digit(n % 10))

\* one println!: tag names the static text, arg is the interpolated value
Line(tag) == [tag |-> tag, arg |-> <<>>]
LineArg(tag, arg) == [tag |-> tag, arg |-> arg]

\* ---------------------------------------------------------------- inputs
\* password values a user may embed in the connection string or URI
Passwords == { <<"p", "4", "5", "5">>, <<"h", "u", "n", "t", "e", "r", "2">> }

\* values of --connection-string: key-value strings carrying a password
OdbcInputs ==
    { [text |-> <<"U", "S", "E", "R", "=", "u", ";", "P", "W", "D", "=">> \o p \o <<";", "S", "E", "R", "V", "E", "R", "=", "h">>, password |-> Some(p)]
        : p \in Passwords }

\* values of --uri: with and without a user:password part
UriInputs ==
    { [text |-> <<"m", "o", "n", "g", "o", "d", "b", ":", "/", "/", "h", "/">>, password |-> None] } \cup
    { [text |-> <<"m", "o", "n", "g", "o", "d", "b", ":", "/", "/", "u", ":">> \o p \o <<"@", "h", "/">>, password |-> Some(p)]
        : p \in Passwords }

\* values of --database
Databases == { None, Some(<<"m", "y", "d", "b">>) }

\* values of --login-timeout (None: flag absent)
LoginTimeoutFlags == { None, Some(5), Some(120) }

\* values of --connection-timeout (None: flag absent)
ConnectionTimeoutFlags == { None, Some(10) }

\* the command lines of the odbc and uri subcommands
TestArgv(command, inputs) ==
    { [command |-> command, text |-> i.text, password |-> i.password,
       database |-> d, login_timeout |-> lt, connection_timeout |-> ct,
       simple_types |-> st, max_string_length |-> ml, verbose |-> vb]
        : i \in inputs, d \in Databases, lt \in LoginTimeoutFlags,
          ct \in ConnectionTimeoutFlags, st \in BOOLEAN, ml \in BOOLEAN,
          vb \in BOOLEAN }

\* the command line of the examples subcommand
ExamplesArgv == [command |-> "Examples"]

\* ---------------------------------------------------------------- library
\* fragments the library's error texts are made of
Fragments ==
    { <<"A", "u", "t", "h", "e", "n", "t", "i", "c", "a", "t", "i", "o", "n">>, <<"a", "u", "t", "h">>, <<"T", "i", "m", "e", "o", "u", "t">>, <<"t", "i", "m", "e", "d", " ", "o", "u", "t">>, <<"D", "N", "S">>,
      <<"r", "e", "s", "o", "l", "v", "e">>, <<"T", "L", "S">>, <<"S", "S", "L">>, <<"D", "a", "t", "a", "b", "a", "s", "e">>, <<"N", "o", " ", "d", "a", "t", "a", "b", "a", "s", "e">>,
      <<"C", "o", "n", "n", "e", "c", "t", "i", "o", "n", " ", "r", "e", "f", "u", "s", "e", "d">>, <<"C", "o", "u", "l", "d", " ", "n", "o", "t", " ", "c", "o", "n", "n", "e", "c", "t">>, <<"f", "a", "i", "l", "e", "d">> }

\* error texts of at most n fragments
RECURSIVE Sentences(_)
Sentences(n) ==
    IF n = 1 THEN Fragments
    ELSE Sentences(n - 1) \cup
         { s \o <<" ">> \o f : s \in Sentences(n - 1), f \in Fragments }

\* every failure message the reporter is exercised with
Messages == Sentences(MaxWords)

\* e.to_string() of an ODBCUri::new error
ParseErrors == { <<"I", "n", "v", "a", "l", "i", "d", " ", "a", "u", "t", "h", " ", "a", "t", "t", "r", "i", "b", "u", "t", "e">>, <<"M", "i", "s", "s", "i", "n", "g", " ", "S", "E", "R", "V", "E", "R">> }

\* e.to_string() of a runtime builder error
SetupErrors == { <<"T", "i", "m", "e", "o", "u", "t", " ", "c", "r", "e", "a", "t", "i", "n", "g", " ", "r", "u", "n", "t", "i", "m", "e">> }

\* e.to_string() of a try_into_client_options or connect error
LibraryErrors == Sentences(1)

\* UserOptions.client_options as resolved by try_into_client_options
ResolvedOptions(pw) ==
    { [credential |-> None, hosts |-> <<"h", ":", "2", "7", "0", "1", "7">>, tls |-> FALSE],
      [credential |-> Some([username |-> Some(<<"u">>), password |-> pw,
                            mechanism |-> None, source |-> None]),
       hosts |-> <<"h", ":", "2", "7", "0", "1", "7">>, tls |-> FALSE],
      [credential |-> Some([username |-> None, password |-> None,
                            mechanism |-> Some(<<"M", "o", "n", "g", "o", "D", "b", "X", "5", "0", "9">>),
                            source |-> Some(<<"$", "e", "x", "t", "e", "r", "n", "a", "l">>)]),
       hosts |-> <<"h", ":", "2", "7", "0", "1", "7">>, tls |-> TRUE] }

\* the MongoConnection values connect can return
Connections ==
    { [cluster_type |-> c, uuid_repr |-> u]
        : c \in { <<"A", "t", "l", "a", "s", "D", "a", "t", "a", "F", "e", "d", "e", "r", "a", "t", "i", "o", "n">>, <<"E", "n", "t", "e", "r", "p", "r", "i", "s", "e">> },
          u \in { None, Some(<<"S", "t", "a", "n", "d", "a", "r", "d">>) } }

\* ---------------------------------------------------------------- program
\* #[arg(default_value = "30")] login_timeout: u32
DefaultLoginTimeout == 30

\* constants::DEFAULT_MAX_STRING_LENGTH
DEFAULT_MAX_STRING_LENGTH == 4000

\* clap: the login_timeout field of Commands::Odbc / Commands::Uri
login_timeout(flag) == IF flag.some THEN flag.val ELSE DefaultLoginTimeout

\* fault: the uri subcommand hands the URI over without the URI= key and
\* the placeholder credentials
uri_connection_string_bare(uri) == uri

\* format!("URI={};USER=dummy;PWD=dummy", uri)
uri_connection_string(uri) == <<"U", "R", "I", "=">> \o uri \o <<";", "U", "S", "E", "R", "=", "d", "u", "m", "m", "y", ";", "P", "W", "D", "=", "d", "u", "m", "m", "y">>

\* let type_mode = if simple_types { Simple } else { Standard }
type_mode(simple_types) == IF simple_types THEN "Simple" ELSE "Standard"

\* fault: the cap is passed whether or not the flag was given
max_str_len_always(max_string_length) == Some(DEFAULT_MAX_STRING_LENGTH)

\* let max_str_len = if max_string_length { Some(DEFAULT..) } else { None }
max_str_len(max_string_length) ==
    IF max_string_length THEN Some(DEFAULT_MAX_STRING_LENGTH) ELSE None

\* the guidance block of one category, printed when the condition holds
Block(cond, tag) == IF cond THEN <<Line(tag)>> ELSE <<>>

\* fault: the message is matched without being lower-cased
print_troubleshooting_tips_case_sensitive(error_msg) ==
    <<Line("Troubleshooting Tips:")>>
    \o Block(contains(error_msg, <<"a", "u", "t", "h", "e", "n", "t", "i", "c", "a", "t", "i", "o", "n">>)
               \/ contains(error_msg, <<"a", "u", "t", "h">>), "Authentication issues")
    \o Block(contains(error_msg, <<"t", "i", "m", "e", "o", "u", "t">>)
               \/ contains(error_msg, <<"t", "i", "m", "e", "d", " ", "o", "u", "t">>), "Timeout issues")
    \o Block(contains(error_msg, <<"d", "n", "s">>)
               \/ contains(error_msg, <<"r", "e", "s", "o", "l", "v", "e">>), "DNS resolution issues")
    \o Block(contains(error_msg, <<"t", "l", "s">>)
               \/ contains(error_msg, <<"s", "s", "l">>), "TLS/SSL issues")
    \o Block(contains(error_msg, <<"d", "a", "t", "a", "b", "a", "s", "e">>)
               \/ contains(error_msg, <<"n", "o", " ", "d", "a", "t", "a", "b", "a", "s", "e">>), "Database issues")
    \o Block(contains(error_msg, <<"c", "o", "n", "n", "e", "c", "t", "i", "o", "n", " ", "r", "e", "f", "u", "s", "e", "d">>)
               \/ contains(error_msg, <<"c", "o", "u", "l", "d", " ", "n", "o", "t", " ", "c", "o", "n", "n", "e", "c", "t">>),
             "Connection refused")
    \o <<Line(""), Line("Common Connection String Formats:"),
         Line("ODBC format"), Line("MongoDB URI format")>>

\* fn print_troubleshooting_tips(error_msg: &str)
print_troubleshooting_tips(error_msg) ==
    LET error_lower == to_lowercase(error_msg) IN
    <<Line("Troubleshooting Tips:")>>
    \o Block(contains(error_lower, <<"a", "u", "t", "h", "e", "n", "t", "i", "c", "a", "t", "i", "o", "n">>)
               \/ contains(error_lower, <<"a", "u", "t", "h">>), "Authentication issues")
    \o Block(contains(error_lower, <<"t", "i", "m", "e", "o", "u", "t">>)
               \/ contains(error_lower, <<"t", "i", "m", "e", "d", " ", "o", "u", "t">>), "Timeout issues")
    \o Block(contains(error_lower, <<"d", "n", "s">>)
               \/ contains(error_lower, <<"r", "e", "s", "o", "l", "v", "e">>), "DNS resolution issues")
    \o Block(contains(error_lower, <<"t", "l", "s">>)
               \/ contains(error_lower, <<"s", "s", "l">>), "TLS/SSL issues")
    \o Block(contains(error_lower, <<"d", "a", "t", "a", "b", "a", "s", "e">>)
               \/ contains(error_lower, <<"n", "o", " ", "d", "a", "t", "a", "b", "a", "s", "e">>), "Database issues")
    \o Block(contains(error_lower, <<"c", "o", "n", "n", "e", "c", "t", "i", "o", "n", " ", "r", "e", "f", "u", "s", "e", "d">>)
               \/ contains(error_lower, <<"c", "o", "u", "l", "d", " ", "n", "o", "t", " ", "c", "o", "n", "n", "e", "c", "t">>),
             "Connection refused")
    \o <<Line(""), Line("Common Connection String Formats:"),
         Line("ODBC format"), Line("MongoDB URI format")>>

\* fn show_examples()
show_examples ==
    <<Line("Rule"), Line("MongoDB ODBC Connection Examples"), Line("Rule"),
      Line(""), Line("Example 1"), Line("Example 2"), Line("Example 3"),
      Line("Example 4"), Line("Example 5"), Line("Example 6"),
      Line("Example 7"), Line("Example 8"), Line("Additional Options:"),
      Line("Environment Variables for URI Parameters:"), Line("Rule")>>

\* test_connection: the "Configuration:" lines of verbose mode
Configuration(r) ==
    <<Line("Configuration:"),
      LineArg("Connection String", r.connection_string),
      LineArg("Database", IF r.database.some THEN r.database.val
                          ELSE <<"(", "f", "r", "o", "m", " ", "c", "o", "n", "n", "e", "c", "t", "i", "o", "n", " ", "s", "t", "r", "i", "n", "g", ")">>),
      LineArg("Login Timeout", fmt_u32(r.login_timeout) \o <<"s">>),
      LineArg("Connection Timeout",
              IF r.connection_timeout.some
              THEN fmt_u32(r.connection_timeout.val) \o <<"s">>
              ELSE <<"(", "n", "o", "n", "e", ")">>),
      LineArg("Type Mode", IF r.simple_types THEN <<"S", "i", "m", "p", "l", "e">>
                           ELSE <<"S", "t", "a", "n", "d", "a", "r", "d">>),
      LineArg("Max String Length", IF r.max_string_length
                                   THEN <<"4", "0", "0", "0", " ", "c", "h", "a", "r", "s">> ELSE <<"U", "n", "l", "i", "m", "i", "t", "e", "d">>),
      Line("")>>

\* test_connection from its entry to the call of ODBCUri::new
test_connection(connection_string, database, lt, connection_timeout, simple_types, max_string_length, verbose) ==
    LET r == [connection_string |-> connection_string,
              database |-> database, login_timeout |-> lt,
              connection_timeout |-> connection_timeout,
              simple_types |-> simple_types,
              max_string_length |-> max_string_length,
              verbose |-> verbose] IN
    /\ req' = r
    /\ output' = output
         \o <<Line("Rule"), Line("MongoDB ODBC Connectivity Test"),
              Line("Rule"), Line("")>>
         \o (IF verbose THEN Configuration(r) ELSE <<>>)
         \o <<Line("Step 1: Parsing connection string...")>>
    /\ pc' = "step1"
    /\ UNCHANGED <<argv, password, user_options, calls, tips, exitCode>>

\* main: Commands::Odbc
main_odbc ==
    /\ pc = "main"
    /\ argv.command = "Odbc"
    /\ test_connection(argv.text, argv.database,
                       login_timeout(argv.login_timeout),
                       argv.connection_timeout, argv.simple_types,
                       argv.max_string_length, argv.verbose)

\* main: Commands::Uri
main_uri ==
    /\ pc = "main"
    /\ argv.command = "Uri"
    /\ test_connection(uri_connection_string(argv.text), argv.database,
                       login_timeout(argv.login_timeout),
                       argv.connection_timeout, argv.simple_types,
                       argv.max_string_length, argv.verbose)

\* fault: the examples subcommand ends with a failure exit code
main_examples_exit1 ==
    /\ pc = "main"
    /\ argv.command = "Examples"
    /\ output' = output \o show_examples
    /\ exitCode' = Some(1)
    /\ pc' = "exited"
    /\ UNCHANGED <<argv, password, req, user_options, calls, tips>>

\* main: Commands::Examples, then the return from main
main_examples ==
    /\ pc = "main"
    /\ argv.command = "Examples"
    /\ output' = output \o show_examples
    /\ exitCode' = Some(0)
    /\ pc' = "exited"
    /\ UNCHANGED <<argv, password, req, user_options, calls, tips>>

\* one call into the external library and the Result it returned
Ok == [ok |-> TRUE]
Err(e) == [ok |-> FALSE, err |-> e]
Call(op, arg, res) == [op |-> op, arg |-> arg, res |-> res]

\* std::process::exit(1)
exit1 == exitCode' = Some(1) /\ pc' = "exited"

\* fault: a parse failure is reported but the run goes on to Step 2
step1_err_continue(e) ==
    /\ output' = output
         \o <<Line("Failed to parse connection string"), LineArg("Error", e)>>
    /\ pc' = "step2"
    /\ UNCHANGED <<tips, exitCode>>

\* fault: a parse failure calls the Diagnostics Reporter as well
step1_err_tips(e) ==
    /\ output' = output
         \o <<Line("Failed to parse connection string"), LineArg("Error", e),
              Line("")>>
         \o print_troubleshooting_tips(e)
    /\ tips' = Append(tips, e)
    /\ exitCode' = Some(1)
    /\ pc' = "exited"

\* test_connection, Step 1: the Err(e) arm of ODBCUri::new
step1_err(e) ==
    /\ output' = output
         \o <<Line("Failed to parse connection string"), LineArg("Error", e)>>
    /\ exit1
    /\ UNCHANGED tips

\* test_connection, Step 1: ODBCUri::new and its match
step1_parse ==
    /\ pc = "step1"
    /\ \/ /\ calls' = Append(calls, Call("ODBCUri::new",
                                         req.connection_string, Ok))
          /\ output' = output
               \o <<Line("Connection string parsed successfully"), Line(""),
                    Line("Step 2: Creating tokio runtime...")>>
          /\ pc' = "step2"
          /\ UNCHANGED <<tips, exitCode>>
       \/ \E e \in ParseErrors :
          /\ calls' = Append(calls, Call("ODBCUri::new",
                                         req.connection_string, Err(e)))
          /\ step1_err(e)
    /\ UNCHANGED <<argv, password, req, user_options>>

\* test_connection, Step 2: the Err(e) arm of the runtime builder
step2_err(e) ==
    /\ output' = output
         \o <<Line("Failed to create runtime"), LineArg("Error", e)>>
    /\ exit1
    /\ UNCHANGED tips

\* test_connection, Step 2: the tokio runtime builder and its match
step2_runtime ==
    /\ pc = "step2"
    /\ \/ /\ calls' = Append(calls, Call("Builder::build", <<>>, Ok))
          /\ output' = output
               \o <<Line("Runtime created successfully"), Line(""),
                    Line("Step 3: Parsing client options...")>>
          /\ pc' = "step3"
          /\ UNCHANGED <<tips, exitCode>>
       \/ \E e \in SetupErrors :
          /\ calls' = Append(calls, Call("Builder::build", <<>>, Err(e)))
          /\ step2_err(e)
    /\ UNCHANGED <<argv, password, req, user_options>>

\* test_connection, Step 3: the credential, hosts and TLS lines of verbose mode
ClientOptionsLines(opts) ==
    (IF opts.credential.some
     THEN LET cred == opts.credential.val IN
          <<LineArg("Username", IF cred.username.some THEN cred.username.val
                                ELSE <<"(", "n", "o", "n", "e", ")">>),
            LineArg("Password", IF cred.password.some THEN <<"*", "*", "*">>
                                ELSE <<"(", "n", "o", "n", "e", ")">>),
            LineArg("Auth Mechanism", IF cred.mechanism.some
                                      THEN cred.mechanism.val
                                      ELSE <<"(", "d", "e", "f", "a", "u", "l", "t", ")">>),
            LineArg("Auth Source", IF cred.source.some THEN cred.source.val
                                   ELSE <<"(", "d", "e", "f", "a", "u", "l", "t", ")">>)>>
     ELSE <<>>)
    \o <<LineArg("Hosts", opts.hosts)>>
    \o (IF opts.tls THEN <<Line("TLS: Configured")>> ELSE <<>>)

\* fault: a resolution failure prints the elapsed time like a connect failure
step3_err_time(e) ==
    /\ output' = output
         \o <<Line("Failed to parse client options"), LineArg("Error", e),
              Line("Time taken"), Line("")>>
         \o print_troubleshooting_tips(e)
    /\ tips' = Append(tips, e)
    /\ exitCode' = Some(1)
    /\ pc' = "exited"

\* test_connection, Step 3: the Err(e) arm of try_into_client_options
step3_err(e) ==
    /\ output' = output
         \o <<Line("Failed to parse client options"), LineArg("Error", e),
              Line("")>>
         \o print_troubleshooting_tips(e)
    /\ tips' = Append(tips, e)
    /\ exit1

\* test_connection, Step 3: try_into_client_options and its match
step3_options ==
    /\ pc = "step3"
    /\ \/ \E opts \in ResolvedOptions(password) :
          /\ calls' = Append(calls, Call("try_into_client_options", <<>>, Ok))
          /\ output' = output
               \o <<Line("Client options parsed successfully")>>
               \o (IF req.verbose THEN ClientOptionsLines(opts) ELSE <<>>)
               \o <<Line(""), Line("Step 4: Establishing connection...")>>
          /\ user_options' = Some(opts)
          /\ pc' = "step4"
          /\ UNCHANGED <<tips, exitCode>>
       \/ \E e \in LibraryErrors :
          /\ calls' = Append(calls, Call("try_into_client_options", <<>>,
                                         Err(e)))
          /\ step3_err(e)
          /\ UNCHANGED user_options
    /\ UNCHANGED <<argv, password, req>>

\* fault: the two timeouts are passed to connect in each other's place
connect_args_swapped(r, opts) ==
    [user_options |-> opts,
     database |-> r.database,
     connection_timeout |-> Some(r.login_timeout),
     login_timeout |-> r.connection_timeout,
     type_mode |-> type_mode(r.simple_types),
     runtime |-> Some("runtime"),
     max_str_len |-> max_str_len(r.max_string_length)]

\* the arguments of MongoConnection::connect
connect_args(r, opts) ==
    [user_options |-> opts,
     database |-> r.database,
     connection_timeout |-> r.connection_timeout,
     login_timeout |-> Some(r.login_timeout),
     type_mode |-> type_mode(r.simple_types),
     runtime |-> Some("runtime"),
     max_str_len |-> max_str_len(r.max_string_length)]

\* test_connection, Step 4: the Err(e) arm of MongoConnection::connect
step4_err(e) ==
    /\ output' = output
         \o <<Line("Connection failed"), Line(""), Line("Error Details:"),
              LineArg("Error", e), Line("Time taken"), Line("")>>
         \o print_troubleshooting_tips(e)
    /\ tips' = Append(tips, e)
    /\ exit1

\* test_connection, Step 4: MongoConnection::connect and its match
step4_connect ==
    /\ pc = "step4"
    /\ \/ \E conn \in Connections :
          /\ calls' = Append(calls, Call("MongoConnection::connect",
                               connect_args(req, user_options.val), Ok))
          /\ output' = output
               \o <<Line("Connection established successfully!"), Line(""),
                    Line("Connection Details:"), Line("Time taken"),
                    LineArg("Cluster type", conn.cluster_type)>>
               \o (IF conn.uuid_repr.some
                   THEN <<LineArg("UUID representation", conn.uuid_repr.val)>>
                   ELSE <<>>)
               \o <<Line(""), Line("SUCCESS: Connection test passed!")>>
          /\ pc' = "cleanup"
          /\ UNCHANGED <<tips, exitCode>>
       \/ \E e \in LibraryErrors :
          /\ calls' = Append(calls, Call("MongoConnection::connect",
                               connect_args(req, user_options.val), Err(e)))
          /\ step4_err(e)
    /\ UNCHANGED <<argv, password, req, user_options>>

\* fault: an error of shutdown is surfaced as a failure of the run
cleanup_surface_error ==
    /\ pc = "cleanup"
    /\ \E res \in {Ok} \cup {Err(e) : e \in LibraryErrors} :
          /\ calls' = Append(calls, Call("shutdown", <<>>, res))
          /\ exitCode' = IF res.ok THEN Some(0) ELSE Some(1)
    /\ output' = output \o <<Line("Rule")>>
    /\ pc' = "exited"
    /\ UNCHANGED <<argv, password, req, user_options, tips>>

\* test_connection: let _ = conn.shutdown() with either Result, the closing
\* rule, and the return from main
cleanup ==
    /\ pc = "cleanup"
    /\ \E res \in {Ok} \cup {Err(e) : e \in LibraryErrors} :
          calls' = Append(calls, Call("shutdown", <<>>, res))
    /\ output' = output \o <<Line("Rule")>>
    /\ exitCode' = Some(0)
    /\ pc' = "exited"
    /\ UNCHANGED <<argv, password, req, user_options, tips>>

\* ---------------------------------------------------------------- behaviours
\* the command lines the tool is run with
CommandLines ==
    TestArgv("Odbc", OdbcInputs) \cup TestArgv("Uri", UriInputs)

Init ==
    /\ pc = "main"
    /\ \/ \E a \in CommandLines :
            /\ argv = [k \in DOMAIN a \ {"password"} |-> a[k]]
            /\ password = a.password
       \/ argv = ExamplesArgv /\ password = None
    /\ req = None
    /\ user_options = None
    /\ calls = <<>>
    /\ tips = <<>>
    /\ output = <<>>
    /\ exitCode = None

Next ==
    \/ main_odbc
    \/ main_uri
    \/ main_examples
    \/ step1_parse
    \/ step2_runtime
    \/ step3_options
    \/ step4_connect
    \/ cleanup

Spec == Init /\ [][Next]_vars

\* The Diagnostics Reporter on its own: one call with any failure message.
TipsInit ==
    /\ pc = "tips"
    /\ argv = ExamplesArgv
    /\ password = None
    /\ req = None
    /\ user_options = None
    /\ calls = <<>>
    /\ tips = <<>>
    /\ output = <<>>
    /\ exitCode = None

tips_call ==
    /\ pc = "tips"
    /\ \E m \in Messages :
          /\ tips' = <<m>>
          /\ output' = print_troubleshooting_tips(m)
    /\ pc' = "tips_done"
    /\ UNCHANGED <<argv, password, req, user_options, calls, exitCode>>

TipsNext == tips_call

TipsSpec == TipsInit /\ [][TipsNext]_vars

\* A run scheduled to completion: the process is sequential and every step
\* of main either returns or exits, so an enabled step is eventually taken.
FairSpec == Spec /\ WF_vars(Next)

\* ---------------------------------------------------------------- properties
\* the four orchestration steps and the shutdown, in program order
StepOrder ==
    <<"ODBCUri::new", "Builder::build", "try_into_client_options",
      "MongoConnection::connect", "shutdown">>

\* the tags of the printed lines, in order
Tags == [i \in 1..Len(output) |-> output[i].tag]

\* the positions of the lines with the given tag
Positions(tag) == { i \in 1..Len(output) : output[i].tag = tag }

\* the four steps all succeeded
AllStepsOk ==
    Len(calls) >= 4 /\ \A k \in 1..4 : calls[k].res.ok

\* C1: the external operations performed are always a prefix of parse,
\* create-context, resolve, connect (then shutdown), each at most once; when
\* one of the four steps fails it is the last operation ever performed and
\* the process has exited with code 1.
C1_FailureIsTerminal ==
    /\ Len(calls) <= Len(StepOrder)
    /\ \A k \in 1..Len(calls) : calls[k].op = StepOrder[k]
    /\ \A k \in 1..Len(calls) :
          (k <= 4 /\ ~calls[k].res.ok)
             => /\ k = Len(calls)
                /\ pc = "exited"
                /\ exitCode = Some(1)

\* C1 witness: option resolution (Step 3) failed after two successful steps
C1_Witness ==
    /\ Len(calls) = 3
    /\ calls[1].res.ok /\ calls[2].res.ok /\ ~calls[3].res.ok
    /\ exitCode = Some(1)

\* C2: shutdown is invoked only after four successful steps and at most
\* once; a run whose four steps succeeded ends with exactly one shutdown,
\* exit code 0 and no call of the Diagnostics Reporter, whatever shutdown
\* returned.
C2_ShutdownOnceExitZero ==
    /\ Cardinality({ k \in 1..Len(calls) : calls[k].op = "shutdown" }) <= 1
    /\ (\E k \in 1..Len(calls) : calls[k].op = "shutdown") => AllStepsOk
    /\ (AllStepsOk /\ pc = "exited")
          => /\ Cardinality({ k \in 1..Len(calls) :
                                calls[k].op = "shutdown" }) = 1
             /\ exitCode = Some(0)
             /\ tips = <<>>
             /\ Positions("Troubleshooting Tips:") = {}
    /\ AllStepsOk => exitCode \in {None, Some(0)}

\* C2 witness: the run succeeded and shutdown returned an error
C2_Witness ==
    /\ AllStepsOk
    /\ Len(calls) = 5
    /\ calls[5].op = "shutdown" /\ ~calls[5].res.ok
    /\ exitCode = Some(0)

\* the six categories of the Diagnostics Reporter with their triggers
Categories ==
    { [block |-> "Authentication issues",
       triggers |-> { <<"a", "u", "t", "h", "e", "n", "t", "i", "c", "a", "t", "i", "o", "n">>, <<"a", "u", "t", "h">> }],
      [block |-> "Timeout issues",
       triggers |-> { <<"t", "i", "m", "e", "o", "u", "t">>, <<"t", "i", "m", "e", "d", " ", "o", "u", "t">> }],
      [block |-> "DNS resolution issues",
       triggers |-> { <<"d", "n", "s">>, <<"r", "e", "s", "o", "l", "v", "e">> }],
      [block |-> "TLS/SSL issues",
       triggers |-> { <<"t", "l", "s">>, <<"s", "s", "l">> }],
      [block |-> "Database issues",
       triggers |-> { <<"d", "a", "t", "a", "b", "a", "s", "e">>, <<"n", "o", " ", "d", "a", "t", "a", "b", "a", "s", "e">> }],
      [block |-> "Connection refused",
       triggers |-> { <<"c", "o", "n", "n", "e", "c", "t", "i", "o", "n", " ", "r", "e", "f", "u", "s", "e", "d">>, <<"c", "o", "u", "l", "d", " ", "n", "o", "t", " ", "c", "o", "n", "n", "e", "c", "t">> }] }

\* the guidance blocks printed, as a set
PrintedBlocks == { c.block : c \in { d \in Categories : Positions(d.block) # {} } }

\* C3: after print_troubleshooting_tips(m), each category's block is printed
\* (once) exactly when the lower-cased m contains one of its triggers, and
\* the output ends with the two reference blocks, each printed once.  The
\* cases of one category, two categories and no category are checked on
\* concrete messages as well.
C3_BlocksMatchTriggers ==
    pc = "tips_done" =>
       LET m == tips[1]
           n == Len(output) IN
       /\ \A c \in Categories :
             /\ Cardinality(Positions(c.block)) <= 1
             /\ Positions(c.block) # {}
                   <=> \E t \in c.triggers : contains(to_lowercase(m), t)
       /\ n >= 4
       /\ Positions("ODBC format") = {n - 1}
       /\ Positions("MongoDB URI format") = {n}
       /\ \A c \in Categories : \A i \in Positions(c.block) : i < n - 1
       /\ Len(output) = 5 + Cardinality(PrintedBlocks)
       /\ m = <<"T", "L", "S", " ", "T", "i", "m", "e", "o", "u", "t">>
             => PrintedBlocks = {"Timeout issues", "TLS/SSL issues"}
       /\ m = <<"D", "N", "S">> => PrintedBlocks = {"DNS resolution issues"}
       /\ m = <<"C", "o", "u", "l", "d", " ", "n", "o", "t", " ", "c", "o", "n", "n", "e", "c", "t">> => PrintedBlocks = {"Connection refused"}
       /\ m = <<"f", "a", "i", "l", "e", "d">> => PrintedBlocks = {}

\* C3 witness: a message with triggers of two categories printed both blocks
C3_Witness ==
    /\ pc = "tips_done"
    /\ tips = << <<"T", "L", "S", " ", "T", "i", "m", "e", "o", "u", "t">> >>
    /\ Positions("Timeout issues") # {}
    /\ Positions("TLS/SSL issues") # {}

\* C4: in verbose mode no printed line carries the password value supplied
\* in the connection string or URI.
C4_PasswordNeverPrinted ==
    (pc # "main" /\ argv.command # "Examples" /\ req.verbose /\ password.some)
       => \A i \in 1..Len(output) : ~contains(output[i].arg, password.val)

\* the login timeout the command line asks for
RequestedLoginTimeout ==
    IF argv.login_timeout.some THEN argv.login_timeout.val ELSE 30

\* C5: from the entry of test_connection on, the login timeout is the value
\* of --login-timeout, or 30 without the flag, and connect receives it.
C5_LoginTimeoutEndToEnd ==
    /\ (argv.command \in {"Odbc", "Uri"} /\ pc # "main")
          => req.login_timeout = RequestedLoginTimeout
    /\ \A k \in 1..Len(calls) :
          calls[k].op = "MongoConnection::connect"
             => calls[k].arg.login_timeout = Some(RequestedLoginTimeout)

\* C5 witness: connect was called by the uri subcommand without the flag, and
\* by then a connection timeout different from 30 was in force
C5_Witness ==
    /\ argv.command = "Uri"
    /\ ~argv.login_timeout.some
    /\ argv.connection_timeout = Some(10)
    /\ Len(calls) >= 4
    /\ calls[4].arg.login_timeout = Some(30)

\* C6: the string submitted to the parser is "URI=" + u + ";USER=dummy;
\* PWD=dummy" for the uri subcommand and the given connection string for the
\* odbc subcommand.
C6_ParserInput ==
    \A k \in 1..Len(calls) :
       calls[k].op = "ODBCUri::new" =>
          LET cs == calls[k].arg
              u == argv.text IN
          /\ argv.command = "Odbc" => cs = u
          /\ argv.command = "Uri" =>
                /\ Len(cs) = 4 + Len(u) + 21
                /\ SubSeq(cs, 1, 4) = <<"U", "R", "I", "=">>
                /\ SubSeq(cs, 5, 4 + Len(u)) = u
                /\ SubSeq(cs, 5 + Len(u), Len(cs)) = <<";", "U", "S", "E", "R", "=", "d", "u", "m", "m", "y", ";", "P", "W", "D", "=", "d", "u", "m", "m", "y">>
          /\ (argv.command = "Uri" /\ u = <<"m", "o", "n", "g", "o", "d", "b", ":", "/", "/", "h", "/">>)
                => cs = <<"U", "R", "I", "=", "m", "o", "n", "g", "o", "d", "b", ":", "/", "/", "h", "/", ";", "U", "S", "E", "R", "=", "d", "u", "m", "m", "y", ";", "P", "W", "D", "=", "d", "u", "m", "m", "y">>

\* C6 witness: the parser was called by the uri subcommand with mongodb://h/
C6_Witness ==
    /\ argv.command = "Uri"
    /\ argv.text = <<"m", "o", "n", "g", "o", "d", "b", ":", "/", "/", "h", "/">>
    /\ Len(calls) >= 1
    /\ calls[1].op = "ODBCUri::new"

\* C7: connect receives the cap DEFAULT_MAX_STRING_LENGTH when
\* --max-string-length was given and no cap when it was not.
C7_MaxStringLength ==
    \A k \in 1..Len(calls) :
       calls[k].op = "MongoConnection::connect" =>
          /\ argv.max_string_length
                => /\ calls[k].arg.max_str_len.some
                   /\ calls[k].arg.max_str_len.val = DEFAULT_MAX_STRING_LENGTH
          /\ ~argv.max_string_length => calls[k].arg.max_str_len = None

\* C7 witness: connect was called with the flag absent
C7_Witness ==
    /\ Len(calls) >= 4
    /\ calls[4].op = "MongoConnection::connect"
    /\ ~argv.max_string_length
    /\ ~calls[4].arg.max_str_len.some

\* C8: a run of the examples subcommand makes no library call, never calls
\* the Diagnostics Reporter, exits with no other code than 0, and terminates.
C8_ExamplesOnly ==
    /\ [](argv.command = "Examples"
            => /\ calls = <<>>
               /\ tips = <<>>
               /\ Positions("Troubleshooting Tips:") = {}
               /\ exitCode \in {None, Some(0)})
    /\ (argv.command = "Examples") ~> (exitCode = Some(0))

\* C8 witness: the examples subcommand printed the examples and returned
C8_Witness ==
    /\ argv.command = "Examples"
    /\ pc = "exited"
    /\ output = show_examples

\* the lines that report the progress of the steps
ProgressTags ==
    { "Step 1: Parsing connection string...",
      "Connection string parsed successfully",
      "Step 2: Creating tokio runtime...",
      "Runtime created successfully",
      "Step 3: Parsing client options...",
      "Client options parsed successfully",
      "Step 4: Establishing connection...",
      "Connection established successfully!" }

IsProgress(tag) == tag \in ProgressTags

\* the progress lines of a run whose k-th step is the last one started
ProgressUpTo(k) ==
    SubSeq(<<"Step 1: Parsing connection string...",
             "Connection string parsed successfully",
             "Step 2: Creating tokio runtime...",
             "Runtime created successfully",
             "Step 3: Parsing client options...",
             "Client options parsed successfully",
             "Step 4: Establishing connection...">>, 1, 2 * k - 1)

\* C9 as stated: every failing run prints the error text, then the elapsed
\* time, then the remediation guidance.
C9_ErrorTimeGuidanceAlways ==
    exitCode = Some(1) =>
       \E e \in Positions("Error"), t \in Positions("Time taken"),
          g \in Positions("Troubleshooting Tips:") : e < t /\ t < g

\* C9 amended: a failing run prints the progress lines of the steps up to
\* the failing one and then the error text of that step; the elapsed time
\* follows only when connect (Step 4) failed, and the remediation guidance
\* only when option resolution (Step 3) or connect (Step 4) failed; the
\* exit code is 1.
C9_FailureOutput ==
    (pc = "exited" /\ calls # <<>> /\ ~calls[Len(calls)].res.ok
        /\ calls[Len(calls)].op # "shutdown") =>
       LET k == Len(calls)
           progress == { i \in 1..Len(output) : IsProgress(output[i].tag) } IN
       /\ exitCode = Some(1)
       /\ SelectSeq(Tags, IsProgress) = ProgressUpTo(k)
       /\ \E e \in Positions("Error") :
             /\ Positions("Error") = {e}
             /\ output[e].arg = calls[k].res.err
             /\ \A i \in progress : i < e
             /\ IF k = 4
                THEN \E t \in Positions("Time taken") :
                        /\ Positions("Time taken") = {t}
                        /\ e < t
                        /\ \A g \in Positions("Troubleshooting Tips:") : t < g
                ELSE Positions("Time taken") = {}
             /\ IF k \in {3, 4}
                THEN \E g \in Positions("Troubleshooting Tips:") :
                        /\ Positions("Troubleshooting Tips:") = {g}
                        /\ e < g
                ELSE Positions("Troubleshooting Tips:") = {}

\* C9 witness: parsing (Step 1) failed; neither time nor guidance was printed
C9_Witness ==
    /\ pc = "exited"
    /\ Len(calls) = 1
    /\ ~calls[1].res.ok
    /\ exitCode = Some(1)
    /\ Positions("Error") # {}
    /\ Positions("Time taken") = {}
    /\ Positions("Troubleshooting Tips:") = {}

\* C10: the Diagnostics Reporter is called at most once, only by a run that
\* has exited; it is called with the error message of the failing step when
\* Step 3 or Step 4 failed, and not at all when Step 1 or Step 2 failed or
\* the run succeeded.
C10_ReporterOnResolveOrConnectFailure ==
    /\ Len(tips) <= 1
    /\ pc # "exited" => tips = <<>>
    /\ pc = "exited" =>
          LET k == Len(calls) IN
          IF k \in {3, 4} /\ ~calls[k].res.ok
          THEN /\ tips = <<calls[k].res.err>>
               /\ Cardinality(Positions("Troubleshooting Tips:")) = 1
               /\ exitCode = Some(1)
          ELSE /\ tips = <<>>
               /\ Positions("Troubleshooting Tips:") = {}

\* C10 witness: connect (Step 4) failed and the reporter got its message
C10_Witness ==
    /\ pc = "exited"
    /\ Len(calls) = 4
    /\ ~calls[4].res.ok
    /\ tips = <<calls[4].res.err>>
    /\ exitCode = Some(1)

====
